---- MODULE Spec2Model ----
(***************************************************************************)
(* Model of pymarkart: marker extraction (extract_markers.py), orientation *)
(* estimation (find_orientations.py), manual refinement                    *)
(* (refine_orientation.py), rendering (create_image.py) and the marker     *)
(* serialisation (dto.py).                                                 *)
(*                                                                         *)
(* Numbers.  Coordinates read from a marker file are integers.  Values     *)
(* the code computes by division are exact rationals <<n, d>> (d > 0,      *)
(* lowest terms).  An angle returned by atan2 is represented by the        *)
(* direction it denotes, a pair <<x, y>> in lowest terms (atan2(0, 0) is   *)
(* 0, the direction <<1, 0>>).  Python's None is Null.                     *)
(***************************************************************************)
EXTENDS Integers, Sequences, FiniteSets, TLC

VARIABLES workflow, pc, args, image, input_file, output_file, orig,
          lbl, lbl_count, i, markers, gen, angles, gui, mean_radius,
          canvas, error, call, ret

vars == <<workflow, pc, args, image, input_file, output_file, orig,
          lbl, lbl_count, i, markers, gen, angles, gui, mean_radius,
          canvas, error, call, ret>>

(***************************************************************************)
(* Bounds of the model.                                                    *)
(***************************************************************************)
Rows == 2
Cols == 2
MaxMarkers == 3
MaxRefined == 2
MaxDrawn == 2
MaxCoord == 1
MaxRadius == 1
MaxWeight == 2
MaxLen == 2
MaxOffset == 1

Null == <<>>

(***************************************************************************)
(* Exact arithmetic.                                                       *)
(***************************************************************************)
Abs(n) == IF n < 0 THEN -n ELSE n

RECURSIVE GCD(_, _)
GCD(a, b) == IF b = 0 THEN a ELSE GCD(b, a % b)

Rat(n, d) ==
    LET g == GCD(Abs(n), Abs(d))
        s == IF d < 0 THEN -1 ELSE 1
    IN  <<(s * n) \div g, (s * d) \div g>>

RAdd(p, q) == Rat(p[1] * q[2] + q[1] * p[2], p[2] * q[2])
RSub(p, q) == Rat(p[1] * q[2] - q[1] * p[2], p[2] * q[2])
RMul(p, q) == Rat(p[1] * q[1], p[2] * q[2])
RDiv(p, q) == Rat(p[1] * q[2], p[2] * q[1])
RLess(p, q) == p[1] * q[2] < q[1] * p[2]
RLeq(p, q) == p[1] * q[2] <= q[1] * p[2]
RInt(n) == <<n, 1>>

\* Sum of the k-th coordinates of a set of pixels.
RECURSIVE SumCoord(_, _)
SumCoord(S, k) ==
    IF S = {} THEN 0
    ELSE LET e == CHOOSE e \in S : TRUE IN e[k] + SumCoord(S \ {e}, k)

RECURSIVE SumSeq(_)
SumSeq(s) == IF s = <<>> THEN 0 ELSE Head(s) + SumSeq(Tail(s))

(***************************************************************************)
(* dto.py: Point and Marker, and their JSON form.                          *)
(***************************************************************************)
Point(x, y) == <<x, y>>

Marker(position, radius, orientation) ==
    [position |-> position, radius |-> radius, orientation |-> orientation]

\* DTOEncoder.default, applied by json.dump to every dto object it meets.
EncodePoint(p) ==
    [py_type |-> "dto.Point", py_data |-> [x |-> p[1], y |-> p[2]]]

EncodeMarker(m) ==
    [py_type |-> "dto.Marker",
     py_data |-> [position |-> IF m.position = Null THEN <<>>
                               ELSE <<EncodePoint(m.position)>>,
                  radius |-> m.radius,
                  orientation |-> m.orientation]]

DTOEncoder(ms) == [k \in 1..Len(ms) |-> EncodeMarker(ms[k])]

\* Faulty variant: the coordinates are passed to Point in the wrong order.
DecodePoint_swapped(o) == Point(o.py_data.y, o.py_data.x)

\* DTODecoder.object_hook, applied by json.load bottom-up to every object.
DecodePoint(o) == Point(o.py_data.x, o.py_data.y)

\* Faulty variant: the stored orientation is not handed to Marker, which
\* leaves it at its default.
DecodeMarker_unoriented(o) ==
    Marker(IF o.py_data.position = <<>> THEN Null
           ELSE DecodePoint(o.py_data.position[1]),
           o.py_data.radius,
           Null)

DecodeMarker(o) ==
    Marker(IF o.py_data.position = <<>> THEN Null
           ELSE DecodePoint(o.py_data.position[1]),
           o.py_data.radius,
           o.py_data.orientation)

DTODecoder(data) == [k \in 1..Len(data) |-> DecodeMarker(data[k])]

\* What is stored under a file name.
NoFile == [exists |-> FALSE, kind |-> "none", data |-> <<>>]
OldFile == [exists |-> TRUE, kind |-> "old", data |-> <<>>]
JsonFile(ms) == [exists |-> TRUE, kind |-> "json", data |-> DTOEncoder(ms)]
EpsFile(c) == [exists |-> TRUE, kind |-> "eps", data |-> <<c>>]

(***************************************************************************)
(* extract_markers.py                                                      *)
(***************************************************************************)
Pixels == (0..(Rows - 1)) \X (0..(Cols - 1))

\* Grey levels in tenths: 0 is black, 10 is white.  A marker is drawn in one
\* of the dark levels; 5 is the level the threshold is at.
DarkLevels == {0, 5}

\* Lines 39-44: invert, then threshold at 0.5.
Binarize(img) == [p \in Pixels |-> IF 10 - img[p] < 5 THEN 0 ELSE 1]

Neighbours(p) ==
    {q \in Pixels : Abs(p[1] - q[1]) + Abs(p[2] - q[2]) = 1}

RECURSIVE Grow(_, _)
Grow(S, fg) ==
    LET N == S \cup {q \in fg : \E p \in S : q \in Neighbours(p)}
    IN  IF N = S THEN S ELSE Grow(N, fg)

RasterIndex(p) == p[1] * Cols + p[2]

RasterMin(S) == CHOOSE p \in S : \A q \in S : RasterIndex(p) <= RasterIndex(q)

RECURSIVE LabelFrom(_, _, _)
LabelFrom(rest, n, l) ==
    IF rest = {} THEN [lbl |-> l, count |-> n]
    ELSE LET comp == Grow({RasterMin(rest)}, rest)
         IN  LabelFrom(rest \ comp, n + 1,
                       [p \in Pixels |-> IF p \in comp THEN n + 1 ELSE l[p]])

\* scipy.ndimage.label: 4-connected components, numbered 1..count in raster
\* order of their first pixel.
ndimage_label(bin) ==
    LabelFrom({p \in Pixels : bin[p] = 1}, 0, [p \in Pixels |-> 0])

RMaxOf(S) == CHOOSE m \in S : \A e \in S : RLeq(e, m)

\* Faulty variant: the points are taken from every labelled pixel.
create_marker_from_foreground(l, r) ==
    LET pts == {p \in Pixels : l[p] # 0}
        pixel_count == Cardinality(pts)
        mx == Rat(SumCoord(pts, 1), pixel_count)
        my == Rat(SumCoord(pts, 2), pixel_count)
        sq(p) == LET dx == RSub(RInt(p[1]), mx)
                     dy == RSub(RInt(p[2]), my)
                 IN  RAdd(RMul(dx, dx), RMul(dy, dy))
        max_distance == RMaxOf({sq(p) : p \in pts})
    IN  Marker(Point(mx, my), [sqrt_of |-> max_distance], Null)

\* The radius is a Euclidean norm; it is kept as the rational under the root.
create_marker_from_region(l, r) ==
    LET pts == {p \in Pixels : l[p] = r}
        pixel_count == Cardinality(pts)
        mx == Rat(SumCoord(pts, 1), pixel_count)
        my == Rat(SumCoord(pts, 2), pixel_count)
        sq(p) == LET dx == RSub(RInt(p[1]), mx)
                     dy == RSub(RInt(p[2]), my)
                 IN  RAdd(RMul(dx, dx), RMul(dy, dy))
        max_distance == RMaxOf({sq(p) : p \in pts})
    IN  Marker(Point(mx, my), [sqrt_of |-> max_distance], Null)

\* range(1, lbl_count), line 48.
RegionRange(count) == 1..(count - 1)

WhiteImage == [p \in Pixels |-> 10]

\* The images the workflow may be given: dark pixels on white, or a file
\* imread cannot read.
Images ==
    {[ok |-> TRUE, px |-> [p \in Pixels |-> IF p \in dark THEN d ELSE 10]] :
        dark \in SUBSET Pixels, d \in DarkLevels}
        \cup {[ok |-> FALSE, px |-> WhiteImage]}

NoArgs ==
    [overwrite |-> FALSE, weight_x |-> 1, weight_y |-> 1,
     use_mean_radius |-> FALSE]

NoGen ==
    [started |-> FALSE, error |-> "none", positions |-> <<>>,
     nearest_neighbors |-> <<>>]
NoGui == [selected_index |-> 0, ignore_next_click |-> FALSE,
          accepted |-> FALSE, open |-> FALSE]
NoCanvas == [items |-> <<>>, frame |-> <<>>]

Idle ==
    /\ lbl = [p \in Pixels |-> 0]
    /\ lbl_count = 0
    /\ i = 0
    /\ markers = <<>>
    /\ gen = NoGen
    /\ angles = <<>>
    /\ gui = NoGui
    /\ mean_radius = Null
    /\ canvas = NoCanvas
    /\ error = "none"
    /\ call = <<>>
    /\ ret = <<>>

InitExtract ==
    /\ workflow = "extract_markers"
    /\ pc = "start"
    /\ \E ow \in BOOLEAN : args = [NoArgs EXCEPT !.overwrite = ow]
    /\ image \in Images
    /\ input_file = NoFile
    /\ output_file \in {NoFile, OldFile}
    /\ orig = [input |-> input_file, output |-> output_file]
    /\ Idle

Fail(e) == pc' = "failed" /\ error' = e

\* extract_markers.main, lines 71-72.
EM_CheckOutput ==
    /\ workflow = "extract_markers" /\ pc = "start"
    /\ IF output_file.exists /\ ~args.overwrite
       THEN Fail("RuntimeError")
       ELSE pc' = "read" /\ error' = error
    /\ UNCHANGED <<workflow, args, image, input_file, output_file, orig, lbl,
                   lbl_count, i, markers, gen, angles, gui, mean_radius,
                   canvas, call, ret>>

\* Line 74, and the first advance of the generator up to the loop head
\* (lines 36-48).
EM_Label ==
    /\ workflow = "extract_markers" /\ pc = "read"
    /\ IF ~image.ok
       THEN /\ Fail("IOError")
            /\ UNCHANGED <<lbl, lbl_count, i>>
       ELSE LET res == ndimage_label(Binarize(image.px))
            IN  /\ lbl' = res.lbl
                /\ lbl_count' = res.count
                /\ i' = 1
                /\ pc' = "extract"
                /\ error' = error
    /\ UNCHANGED <<workflow, args, image, input_file, output_file, orig,
                   markers, gen, angles, gui, mean_radius, canvas, call, ret>>

\* One iteration of the loop of lines 48-49, collected by list() (line 75).
EM_Yield ==
    /\ workflow = "extract_markers" /\ pc = "extract"
    /\ i \in RegionRange(lbl_count)
    /\ markers' = Append(markers, create_marker_from_region(lbl, i))
    /\ i' = i + 1
    /\ UNCHANGED <<workflow, pc, args, image, input_file, output_file, orig,
                   lbl, lbl_count, gen, angles, gui, mean_radius, canvas,
                   error, call, ret>>

\* The range is exhausted: list() returns.
EM_Exhausted ==
    /\ workflow = "extract_markers" /\ pc = "extract"
    /\ i \notin RegionRange(lbl_count)
    /\ pc' = "write"
    /\ UNCHANGED <<workflow, args, image, input_file, output_file, orig, lbl,
                   lbl_count, i, markers, gen, angles, gui, mean_radius,
                   canvas, error, call, ret>>

\* Lines 76-78.
EM_Write ==
    /\ workflow = "extract_markers" /\ pc = "write"
    /\ output_file' = JsonFile(markers)
    /\ pc' = "done"
    /\ UNCHANGED <<workflow, args, image, input_file, orig, lbl, lbl_count,
                   i, markers, gen, angles, gui, mean_radius, canvas, error,
                   call, ret>>

(***************************************************************************)
(* Marker files the workflows may be given.                                *)
(***************************************************************************)
Coords == 0..MaxCoord
Radii == 0..MaxRadius
Weights == 1..MaxWeight

\* The positions a stored marker may have: the grid points within MaxCoord
\* steps of the origin.
Positions == {p \in Coords \X Coords : p[1] + p[2] <= MaxCoord}

\* The orientation stored for marker k of a file whose orientations have
\* been estimated: the axis directions in turn.
StoredOrientation(k) ==
    CASE k % 4 = 1 -> <<1, 0>>
      [] k % 4 = 2 -> <<0, 1>>
      [] k % 4 = 3 -> <<-1, 0>>
      [] OTHER -> <<0, -1>>

\* Marker k of a stored list.  A record without a position decodes to a
\* marker whose position is None; such a marker has not been fitted and has
\* no orientation.
StoredMarker(k, position, radius, estimated) ==
    Marker(position,
           IF position = Null THEN 0 ELSE radius,
           IF estimated /\ position # Null THEN StoredOrientation(k) ELSE Null)

\* A position and a radius for marker k where the workflow's input does not
\* need them to vary; neighbouring markers differ in both.
PositionByIndex(k) ==
    Point(k % (MaxCoord + 1), (k \div (MaxCoord + 1)) % (MaxCoord + 1))

RadiusByIndex(k) == k % (MaxRadius + 1)

\* Input of find_orientations: markers at any positions, as extraction
\* leaves a file, the last one possibly without a position, or no file.
FO_Files ==
    {JsonFile([k \in 1..Len(ps) |->
                  StoredMarker(k, IF blank /\ k = Len(ps) THEN Null ELSE ps[k],
                               RadiusByIndex(k), FALSE)]) :
        ps \in UNION {[1..n -> Positions] : n \in 0..MaxMarkers},
        blank \in BOOLEAN}
        \cup {NoFile}

\* Input of refine_orientation: n markers, estimated or not, the last one
\* possibly without a position, or no file.
RO_Files ==
    {JsonFile([k \in 1..n |->
                  StoredMarker(k, IF blank /\ k = n THEN Null
                                  ELSE PositionByIndex(k),
                               RadiusByIndex(k), est)]) :
        n \in 0..MaxRefined, est \in BOOLEAN, blank \in BOOLEAN}
        \cup {NoFile}

\* Input of create_image: any radii, estimated or not, or no file.
CI_Files ==
    {JsonFile([k \in 1..Len(rs) |->
                  StoredMarker(k, PositionByIndex(k), rs[k], est)]) :
        rs \in UNION {[1..n -> Radii] : n \in 0..MaxDrawn}, est \in BOOLEAN}
        \cup {NoFile}

\* The weights given on the command line; scaling both by one factor does
\* not change which neighbour is nearest, so one of them is 1.
WeightPairs == {w \in Weights \X Weights : w[1] = 1 \/ w[2] = 1}

(***************************************************************************)
(* find_orientations.py                                                    *)
(***************************************************************************)
\* scipy.inf: larger than every rational under RLess.
Inf == <<1, 0>>

\* math.atan2(y, x), as the direction of (x, y).
Atan2(y, x) ==
    IF x = 0 /\ y = 0 THEN <<1, 0>>
    ELSE LET g == GCD(Abs(x), Abs(y)) IN <<x \div g, y \div g>>

\* Line 17: positions / weights, then the pairwise distance.  The distance
\* is kept as its square, which orders the pairs the same way: the fraction
\* (dx/wx)^2 + (dy/wy)^2 over the common denominator.
ScaledDistance(p, q, wx, wy) ==
    LET dx == p[1] - q[1]
        dy == p[2] - q[2]
    IN  <<dx * dx * wy * wy + dy * dy * wx * wx, wx * wx * wy * wy>>

\* Lines 17-18: squareform(pdist(...)); a single position gives the 1x1
\* zero matrix.
distance_matrix(positions, wx, wy) ==
    [a \in 1..Len(positions) |->
        [b \in 1..Len(positions) |->
            ScaledDistance(positions[a], positions[b], wx, wy)]]

\* Faulty variant: the diagonal is left as pdist gave it.
fill_diagonal_skipped(m, v) == m

\* Line 23.
fill_diagonal(m, v) ==
    [a \in 1..Len(m) |-> [b \in 1..Len(m) |-> IF a = b THEN v ELSE m[a][b]]]

\* scipy.argmin over one row: a left-to-right scan keeping the first least
\* entry.  Indices are 1-based here (marker k is index k-1 in the code).
RECURSIVE ArgMinScan(_, _, _)
ArgMinScan(row, k, best) ==
    IF k > Len(row) THEN best
    ELSE ArgMinScan(row, k + 1, IF RLess(row[k], row[best]) THEN k ELSE best)

argmin(row) == ArgMinScan(row, 2, 1)

\* Lines 15-24, run when the generator is first advanced.
find_angles_start(ms, wx, wy) ==
    IF \E k \in 1..Len(ms) : ms[k].position = Null
    THEN [error |-> "AttributeError", positions |-> <<>>,
          nearest_neighbors |-> <<>>]
    ELSE IF Len(ms) = 0
    THEN \* an array of shape (0,) does not broadcast against the weights
         [error |-> "ValueError", positions |-> <<>>,
          nearest_neighbors |-> <<>>]
    ELSE LET positions == [k \in 1..Len(ms) |-> ms[k].position]
             dm == fill_diagonal(distance_matrix(positions, wx, wy), Inf)
         IN  [error |-> "none", positions |-> positions,
              nearest_neighbors |-> [k \in 1..Len(ms) |-> argmin(dm[k])]]

\* Faulty variant: the angle of the neighbour's position, not of the difference.
find_angles_yield_absolute(g, k) ==
    LET n == g.nearest_neighbors[k]
    IN  Atan2(g.positions[n][2], g.positions[n][1])

\* Lines 28-30: the angle yielded for marker k.
find_angles_yield(g, k) ==
    LET n == g.nearest_neighbors[k]
        v == <<g.positions[n][1] - g.positions[k][1],
               g.positions[n][2] - g.positions[k][2]>>
    IN  Atan2(v[2], v[1])

InitFindOrientations ==
    /\ workflow = "find_orientations"
    /\ pc = "start"
    /\ \E w \in WeightPairs :
          args = [NoArgs EXCEPT !.weight_x = w[1], !.weight_y = w[2]]
    /\ image = [ok |-> FALSE, px |-> WhiteImage]
    /\ input_file \in FO_Files
    /\ output_file = NoFile
    /\ orig = [input |-> input_file, output |-> output_file]
    /\ Idle

\* Faulty variant: the file is opened for writing while it is read.
FO_Load_truncating ==
    /\ workflow = "find_orientations" /\ pc = "start"
    /\ IF ~input_file.exists
       THEN Fail("IOError") /\ UNCHANGED <<markers, i, input_file>>
       ELSE /\ markers' = DTODecoder(input_file.data)
            /\ input_file' = JsonFile(<<>>)
            /\ i' = 1
            /\ pc' = "zip"
            /\ error' = error
    /\ UNCHANGED <<workflow, args, image, output_file, orig, lbl, lbl_count,
                   gen, angles, gui, mean_radius, canvas, call, ret>>

\* find_orientations.main, lines 53-56: load the file; find_angles only
\* creates the generator.
FO_Load ==
    /\ workflow = "find_orientations" /\ pc = "start"
    /\ IF ~input_file.exists
       THEN Fail("IOError") /\ UNCHANGED <<markers, i>>
       ELSE /\ markers' = DTODecoder(input_file.data)
            /\ i' = 1
            /\ pc' = "zip"
            /\ error' = error
    /\ UNCHANGED <<workflow, args, image, input_file, output_file, orig, lbl,
                   lbl_count, gen, angles, gui, mean_radius, canvas, call,
                   ret>>

\* Lines 57-59, one iteration: zip takes the next marker, then advances the
\* generator (which runs lines 15-24 the first time), and the marker's
\* orientation is assigned.
FO_Zip ==
    /\ workflow = "find_orientations" /\ pc = "zip"
    /\ i <= Len(markers)
    /\ LET g == IF gen.started THEN gen
                ELSE LET st == find_angles_start(markers, args.weight_x,
                                                 args.weight_y)
                     IN  [started |-> TRUE, error |-> st.error,
                          positions |-> st.positions,
                          nearest_neighbors |-> st.nearest_neighbors]
       IN  /\ gen' = g
           /\ IF g.error # "none"
              THEN Fail(g.error) /\ UNCHANGED <<markers, angles, i>>
              ELSE LET angle == find_angles_yield(g, i)
                   IN  /\ angles' = Append(angles, angle)
                       /\ markers' = [markers EXCEPT ![i].orientation = angle]
                       /\ i' = i + 1
                       /\ UNCHANGED <<pc, error>>
    /\ UNCHANGED <<workflow, args, image, input_file, output_file, orig, lbl,
                   lbl_count, gui, mean_radius, canvas, call, ret>>

\* The marker list is exhausted: zip stops without advancing the generator.
FO_ZipEnd ==
    /\ workflow = "find_orientations" /\ pc = "zip"
    /\ i > Len(markers)
    /\ pc' = "write"
    /\ UNCHANGED <<workflow, args, image, input_file, output_file, orig, lbl,
                   lbl_count, i, markers, gen, angles, gui, mean_radius,
                   canvas, error, call, ret>>

\* Lines 60-61.
FO_Write ==
    /\ workflow = "find_orientations" /\ pc = "write"
    /\ input_file' = JsonFile(markers)
    /\ pc' = "done"
    /\ UNCHANGED <<workflow, args, image, output_file, orig, lbl, lbl_count,
                   i, markers, gen, angles, gui, mean_radius, canvas, error,
                   call, ret>>

(***************************************************************************)
(* refine_orientation.py                                                   *)
(*                                                                         *)
(* _selected_index is 0 for None and k for marker k (index k-1 in the      *)
(* code).  Drawing, colours and the blitting cache are left out: no value  *)
(* the workflow stores depends on them.                                    *)
(***************************************************************************)
\* Positions of the cursor delivered with a motion event (xdata, ydata);
\* Null is a cursor outside the axes.
MousePoints == {Null, <<0, MaxCoord + 1>>, <<MaxCoord + 1, 0>>}

\* MarkerRefinementGui.__init__, lines 59-76: the exception it ends in, or
\* "none".
gui_init_error(ms) ==
    IF ms = <<>> THEN "ValueError"
    ELSE IF \E k \in 1..Len(ms) : ms[k].position = Null THEN "AttributeError"
    ELSE IF \E k \in 1..Len(ms) : ms[k].orientation = Null THEN "TypeError"
    ELSE "none"

InitRefine ==
    /\ workflow = "refine_orientation"
    /\ pc = "start"
    /\ args = NoArgs
    /\ image = [ok |-> FALSE, px |-> WhiteImage]
    /\ input_file \in RO_Files
    /\ output_file = NoFile
    /\ orig = [input |-> input_file, output |-> output_file]
    /\ Idle

\* refine_orientation.main, lines 204-206.
RO_Load ==
    /\ workflow = "refine_orientation" /\ pc = "start"
    /\ IF ~input_file.exists
       THEN Fail("IOError") /\ UNCHANGED markers
       ELSE /\ markers' = DTODecoder(input_file.data)
            /\ pc' = "gui"
            /\ error' = error
    /\ UNCHANGED <<workflow, args, image, input_file, output_file, orig, lbl,
                   lbl_count, i, gen, angles, gui, mean_radius, canvas, call,
                   ret>>

\* refine_markers, lines 181-182: construct the GUI and show it.
RO_OpenGui ==
    /\ workflow = "refine_orientation" /\ pc = "gui"
    /\ IF gui_init_error(markers) # "none"
       THEN Fail(gui_init_error(markers)) /\ UNCHANGED <<angles, gui>>
       ELSE /\ angles' = [k \in 1..Len(markers) |-> markers[k].orientation]
            /\ gui' = [selected_index |-> 0, ignore_next_click |-> FALSE,
                       accepted |-> FALSE, open |-> TRUE]
            /\ pc' = "show"
            /\ error' = error
    /\ UNCHANGED <<workflow, args, image, input_file, output_file, orig, lbl,
                   lbl_count, i, markers, gen, mean_radius, canvas, call, ret>>

\* on_pick, lines 154-172, for the circle of marker k.
on_pick(k) ==
    /\ workflow = "refine_orientation" /\ pc = "show"
    /\ IF gui.selected_index # 0
       THEN gui' = gui
       ELSE gui' = [gui EXCEPT !.ignore_next_click = TRUE,
                               !.selected_index = k]
    /\ UNCHANGED <<workflow, pc, args, image, input_file, output_file, orig,
                   lbl, lbl_count, i, markers, gen, angles, mean_radius,
                   canvas, error, call, ret>>

\* Faulty variant: the click that comes with the pick is not ignored.
on_click_unguarded ==
    /\ workflow = "refine_orientation" /\ pc = "show"
    /\ IF gui.selected_index = 0
       THEN gui' = [gui EXCEPT !.ignore_next_click = FALSE]
       ELSE gui' = [gui EXCEPT !.ignore_next_click = FALSE,
                               !.selected_index = 0]
    /\ UNCHANGED <<workflow, pc, args, image, input_file, output_file, orig,
                   lbl, lbl_count, i, markers, gen, angles, mean_radius,
                   canvas, error, call, ret>>

\* on_click, lines 138-152.
on_click ==
    /\ workflow = "refine_orientation" /\ pc = "show"
    /\ IF gui.ignore_next_click
       THEN gui' = [gui EXCEPT !.ignore_next_click = FALSE]
       ELSE IF gui.selected_index = 0
       THEN gui' = gui
       ELSE gui' = [gui EXCEPT !.selected_index = 0]
    /\ UNCHANGED <<workflow, pc, args, image, input_file, output_file, orig,
                   lbl, lbl_count, i, markers, gen, angles, mean_radius,
                   canvas, error, call, ret>>

\* on_mouse_move, lines 114-136, with the cursor at xy.
on_mouse_move(xy) ==
    /\ workflow = "refine_orientation" /\ pc = "show"
    /\ IF gui.selected_index = 0 \/ xy = Null
       THEN angles' = angles
       ELSE LET m == markers[gui.selected_index]
                dx == xy[1] - m.position[1]
                dy == xy[2] - m.position[2]
            IN  angles' = [angles EXCEPT ![gui.selected_index] = Atan2(dy, dx)]
    /\ UNCHANGED <<workflow, pc, args, image, input_file, output_file, orig,
                   lbl, lbl_count, i, markers, gen, gui, mean_radius, canvas,
                   error, call, ret>>

\* on_accept, lines 109-112: the Save button closes the figure.
on_accept ==
    /\ workflow = "refine_orientation" /\ pc = "show"
    /\ gui' = [gui EXCEPT !.accepted = TRUE, !.open = FALSE]
    /\ pc' = "shown"
    /\ UNCHANGED <<workflow, args, image, input_file, output_file, orig, lbl,
                   lbl_count, i, markers, gen, angles, mean_radius, canvas,
                   error, call, ret>>

\* The user closes the window; plt.show() returns without on_accept.
RO_CloseWindow ==
    /\ workflow = "refine_orientation" /\ pc = "show"
    /\ gui' = [gui EXCEPT !.open = FALSE]
    /\ pc' = "shown"
    /\ UNCHANGED <<workflow, args, image, input_file, output_file, orig, lbl,
                   lbl_count, i, markers, gen, angles, mean_radius, canvas,
                   error, call, ret>>

\* refine_orientation.main, lines 207-213.
RO_Finish ==
    /\ workflow = "refine_orientation" /\ pc = "shown"
    /\ IF gui.accepted
       THEN LET ms == [k \in 1..Len(markers) |->
                          [markers[k] EXCEPT !.orientation = angles[k]]]
            IN  /\ markers' = ms
                /\ input_file' = JsonFile(ms)
       ELSE UNCHANGED <<markers, input_file>>
    /\ pc' = "done"
    /\ UNCHANGED <<workflow, args, image, output_file, orig, lbl, lbl_count,
                   i, gen, angles, gui, mean_radius, canvas, error, call, ret>>

(***************************************************************************)
(* create_image.py: frame geometry.  Lengths are exact rationals.          *)
(***************************************************************************)
RZero == <<0, 1>>
ROne == <<1, 1>>
NaN == <<0, 0>>

RMin(p, q) == IF RLess(q, p) THEN q ELSE p

\* Faulty variant: the quotients are taken the other way round (shrinking).
get_scale_from_ratio_shrinking(ratio, width, height) ==
    LET desired_width == RMul(height, ratio)
        desired_height == RDiv(width, ratio)
    IN  IF RLess(width, desired_width)
        THEN [error |-> "none", sx |-> RDiv(width, desired_width),
              sy |-> ROne]
        ELSE IF RLess(height, desired_height)
        THEN [error |-> "none", sx |-> ROne,
              sy |-> RDiv(height, desired_height)]
        ELSE [error |-> "none", sx |-> ROne, sy |-> ROne]

\* Lines 49-55.  A division by a zero length raises ZeroDivisionError.
get_scale_from_ratio(ratio, width, height) ==
    LET desired_width == RMul(height, ratio)
        desired_height == RDiv(width, ratio)
    IN  IF RLess(width, desired_width)
        THEN IF width = RZero
             THEN [error |-> "ZeroDivisionError", sx |-> ROne, sy |-> ROne]
             ELSE [error |-> "none", sx |-> RDiv(desired_width, width),
                   sy |-> ROne]
        ELSE IF RLess(height, desired_height)
        THEN IF height = RZero
             THEN [error |-> "ZeroDivisionError", sx |-> ROne, sy |-> ROne]
             ELSE [error |-> "none", sx |-> ROne,
                   sy |-> RDiv(desired_height, height)]
        ELSE [error |-> "none", sx |-> ROne, sy |-> ROne]

\* Faulty variant: the upper end is scaled about a, not about the midpoint.
apply_scale_centered_from_a(scale, a, b) ==
    <<a, RAdd(a, RMul(scale, RSub(b, a)))>>

\* Lines 67-69.
apply_scale_centered(scale, a, b) ==
    LET a_scaled == RDiv(RAdd(RMul(a, RAdd(ROne, scale)),
                              RMul(b, RSub(ROne, scale))), RInt(2))
        b_scaled == RDiv(RAdd(RMul(a, RSub(ROne, scale)),
                              RMul(b, RAdd(ROne, scale))), RInt(2))
    IN  <<a_scaled, b_scaled>>

\* Lines 83-119, given the bounding box <<x0, x1, y0, y1>> of the canvas:
\* the rectangles stroked and the line width of the inner one.
draw_frame(bbox, frame_ratio, frame_scale, double_line) ==
    LET rs == IF frame_ratio = Null
              THEN [error |-> "none", sx |-> ROne, sy |-> ROne]
              ELSE get_scale_from_ratio(frame_ratio, RSub(bbox[2], bbox[1]),
                                        RSub(bbox[4], bbox[3]))
        scale_x == RMul(frame_scale, rs.sx)
        scale_y == RMul(frame_scale, rs.sy)
        xs == apply_scale_centered(scale_x, bbox[1], bbox[2])
        ys == apply_scale_centered(scale_y, bbox[3], bbox[4])
        line_width == RDiv(RMin(RSub(xs[2], xs[1]), RSub(ys[2], ys[1])),
                           RInt(200))
        off == RMul(RInt(2), line_width)
    IN  IF rs.error # "none"
        THEN [error |-> rs.error, inner |-> Null, line_width |-> Null,
              outer |-> Null]
        ELSE [error |-> "none",
              inner |-> <<xs[1], xs[2], ys[1], ys[2]>>,
              line_width |-> line_width,
              outer |-> IF double_line
                        THEN <<RSub(xs[1], off), RAdd(xs[2], off),
                               RSub(ys[1], off), RAdd(ys[2], off)>>
                        ELSE Null]

(***************************************************************************)
(* create_image.py: drawing the markers.                                   *)
(***************************************************************************)
\* The direction of an angle increased by pi/4 (line 16).
AddQuarterPi(d) == Atan2(d[1] + d[2], d[1] - d[2])

\* Line 131: scipy.mean of the radii; of no radii it is nan (and a warning).
mean(rs) == IF rs = <<>> THEN NaN ELSE Rat(SumSeq(rs), Len(rs))

\* Faulty variant: the mean is ignored.
radius_used_own(mr, m) == RInt(m.radius)

\* Line 137: mean_radius or m.radius.  None and 0.0 are false, nan is true.
radius_used(mr, m) ==
    IF mr = Null \/ mr = RZero THEN RInt(m.radius) ELSE mr

\* fill_square, lines 16-31: the exception it ends in, or "none".
fill_square_error(m) ==
    IF m.orientation = Null THEN "TypeError"
    ELSE IF m.position = Null THEN "AttributeError"
    ELSE "none"

\* A coordinate of a corner is a + b/sqrt(n) with a, b rational and n the
\* squared length of the direction pair of the angle: [a, b, n].
Cos(d) == [a |-> RZero, b |-> RInt(d[1]), n |-> d[1] * d[1] + d[2] * d[2]]
Sin(d) == [a |-> RZero, b |-> RInt(d[2]), n |-> d[1] * d[1] + d[2] * d[2]]

\* radius * s, x + s and x - s for a rational radius and an integer x.
STimes(r, s) == [a |-> RMul(r, s.a), b |-> RMul(r, s.b), n |-> s.n]
SPlus(x, s) == [a |-> RAdd(RInt(x), s.a), b |-> s.b, n |-> s.n]
SMinus(x, s) ==
    [a |-> RSub(RInt(x), s.a), b |-> RSub(RZero, s.b), n |-> s.n]

\* Faulty variant: the second corner is mirrored instead of rotated.
fill_square_mirrored(position, radius, angle) ==
    LET t == AddQuarterPi(angle)
        vx == STimes(radius, Cos(t))
        vy == STimes(radius, Sin(t))
    IN  [position |-> position, radius |-> radius, angle |-> t,
         path |-> << <<SPlus(position[1], vx), SPlus(position[2], vy)>>,
                     <<SPlus(position[1], vy), SPlus(position[2], vx)>>,
                     <<SMinus(position[1], vx), SMinus(position[2], vy)>>,
                     <<SPlus(position[1], vy), SMinus(position[2], vx)>> >>]

\* fill_square, lines 16-31: the square added to the canvas, with the
\* corners p0..p3 of the closed, filled path in the order they are joined.
fill_square(position, radius, angle) ==
    LET t == AddQuarterPi(angle)
        vx == STimes(radius, Cos(t))
        vy == STimes(radius, Sin(t))
    IN  [position |-> position, radius |-> radius, angle |-> t,
         path |-> << <<SPlus(position[1], vx), SPlus(position[2], vy)>>,
                     <<SMinus(position[1], vy), SPlus(position[2], vx)>>,
                     <<SMinus(position[1], vx), SMinus(position[2], vy)>>,
                     <<SPlus(position[1], vy), SMinus(position[2], vx)>> >>]

\* What pyx reports as the bounding box of a canvas with squares on it.  The
\* corners are irrational; the box is one of a few boxes a drawing can have
\* (the first is that of squares of radius 0 at one point).
BBoxChoices ==
    {<<RZero, RZero, RZero, RZero>>, <<RZero, RInt(2), RZero, RInt(1)>>}

FrameRatioChoices == {Null, ROne}

InitCreateImage ==
    /\ workflow = "create_image"
    /\ pc = "start"
    /\ \E ow \in BOOLEAN, um \in BOOLEAN :
          args = [NoArgs EXCEPT !.overwrite = ow, !.use_mean_radius = um]
    /\ image = [ok |-> FALSE, px |-> WhiteImage]
    /\ input_file \in CI_Files
    /\ output_file \in {NoFile, OldFile}
    /\ orig = [input |-> input_file, output |-> output_file]
    /\ Idle

\* create_image.main, lines 169-170.
CI_CheckOutput ==
    /\ workflow = "create_image" /\ pc = "start"
    /\ IF output_file.exists /\ ~args.overwrite
       THEN Fail("RuntimeError")
       ELSE pc' = "read" /\ error' = error
    /\ UNCHANGED <<workflow, args, image, input_file, output_file, orig, lbl,
                   lbl_count, i, markers, gen, angles, gui, mean_radius,
                   canvas, call, ret>>

\* Lines 172-173.
CI_Load ==
    /\ workflow = "create_image" /\ pc = "read"
    /\ IF ~input_file.exists
       THEN Fail("IOError") /\ UNCHANGED markers
       ELSE /\ markers' = DTODecoder(input_file.data)
            /\ pc' = "mean"
            /\ error' = error
    /\ UNCHANGED <<workflow, args, image, input_file, output_file, orig, lbl,
                   lbl_count, i, gen, angles, gui, mean_radius, canvas, call,
                   ret>>

\* create_image, lines 129-135.
CI_Mean ==
    /\ workflow = "create_image" /\ pc = "mean"
    /\ mean_radius' = IF args.use_mean_radius
                      THEN mean([k \in 1..Len(markers) |-> markers[k].radius])
                      ELSE Null
    /\ canvas' = NoCanvas
    /\ i' = 1
    /\ pc' = "draw"
    /\ UNCHANGED <<workflow, args, image, input_file, output_file, orig, lbl,
                   lbl_count, markers, gen, angles, gui, error, call, ret>>

\* Lines 136-138, one iteration.
CI_Draw ==
    /\ workflow = "create_image" /\ pc = "draw"
    /\ i <= Len(markers)
    /\ LET m == markers[i]
           r == radius_used(mean_radius, m)
       IN  IF fill_square_error(m) # "none"
           THEN Fail(fill_square_error(m)) /\ UNCHANGED <<canvas, i>>
           ELSE /\ canvas' = [canvas EXCEPT !.items =
                                 Append(@, fill_square(m.position, r,
                                                       m.orientation))]
                /\ i' = i + 1
                /\ UNCHANGED <<pc, error>>
    /\ UNCHANGED <<workflow, args, image, input_file, output_file, orig, lbl,
                   lbl_count, markers, gen, angles, gui, mean_radius, call,
                   ret>>

\* The loop ends; draw_frame is called (line 141).
CI_DrawEnd ==
    /\ workflow = "create_image" /\ pc = "draw"
    /\ i > Len(markers)
    /\ pc' = "frame"
    /\ UNCHANGED <<workflow, args, image, input_file, output_file, orig, lbl,
                   lbl_count, i, markers, gen, angles, gui, mean_radius,
                   canvas, error, call, ret>>

\* draw_frame on a canvas with squares on it.
CI_Frame ==
    /\ workflow = "create_image" /\ pc = "frame"
    /\ canvas.items # <<>>
    /\ \E bbox \in BBoxChoices, fr \in FrameRatioChoices, dl \in BOOLEAN :
          LET f == draw_frame(bbox, fr, ROne, dl)
          IN  IF f.error # "none"
              THEN Fail(f.error) /\ UNCHANGED canvas
              ELSE /\ canvas' = [canvas EXCEPT !.frame = <<f>>]
                   /\ pc' = "save"
                   /\ error' = error
    /\ UNCHANGED <<workflow, args, image, input_file, output_file, orig, lbl,
                   lbl_count, i, markers, gen, angles, gui, mean_radius,
                   call, ret>>

\* draw_frame on a canvas with nothing on it.  The code does not test for
\* it; what the bounding box of an empty canvas is, is left to pyx: its
\* accessors raise, or they return values no frame can be computed from.
CI_FrameEmpty ==
    /\ workflow = "create_image" /\ pc = "frame"
    /\ canvas.items = <<>>
    /\ \/ Fail("BBoxError") /\ UNCHANGED canvas
       \/ /\ canvas' = [canvas EXCEPT !.frame =
                           <<[error |-> "none",
                              inner |-> <<NaN, NaN, NaN, NaN>>,
                              line_width |-> NaN, outer |-> Null]>>]
          /\ pc' = "save"
          /\ error' = error
    /\ UNCHANGED <<workflow, args, image, input_file, output_file, orig, lbl,
                   lbl_count, i, markers, gen, angles, gui, mean_radius,
                   call, ret>>

\* create_image returns the canvas; main writes the EPS file (lines 180-182).
CI_Save ==
    /\ workflow = "create_image" /\ pc = "save"
    /\ output_file' = EpsFile(canvas)
    /\ pc' = "done"
    /\ UNCHANGED <<workflow, args, image, input_file, orig, lbl, lbl_count,
                   i, markers, gen, angles, gui, mean_radius, canvas, error,
                   call, ret>>

Init == InitExtract \/ InitFindOrientations \/ InitRefine \/ InitCreateImage

Next ==
    \/ EM_CheckOutput
    \/ EM_Label
    \/ EM_Yield
    \/ EM_Exhausted
    \/ EM_Write
    \/ FO_Load
    \/ FO_Zip
    \/ FO_ZipEnd
    \/ FO_Write
    \/ RO_Load
    \/ RO_OpenGui
    \/ \E k \in 1..Len(markers) : on_pick(k)
    \/ on_click
    \/ \E xy \in MousePoints : on_mouse_move(xy)
    \/ on_accept
    \/ RO_CloseWindow
    \/ RO_Finish
    \/ CI_CheckOutput
    \/ CI_Load
    \/ CI_Mean
    \/ CI_Draw
    \/ CI_DrawEnd
    \/ CI_Frame
    \/ CI_FrameEmpty
    \/ CI_Save

Spec == Init /\ [][Next]_vars

(***************************************************************************)
(* The pure functions on their own: a call is drawn, then made.            *)
(***************************************************************************)
Rationals == {Rat(n, d) : n \in (-MaxLen)..MaxLen, d \in 1..MaxLen}
Lengths == {q \in Rationals : RLeq(RZero, q)}
Ratios == {q \in Rationals : RLess(RZero, q)}

Calls ==
    {[fn |-> "get_scale_from_ratio", ratio |-> r, width |-> w, height |-> h] :
        r \in Ratios, w \in Lengths, h \in Lengths}
    \cup
    {[fn |-> "apply_scale_centered", scale |-> sc, a |-> a, b |-> b] :
        sc \in Rationals, a \in Rationals, b \in Rationals}
    \cup
    {[fn |-> "draw_frame", bbox |-> <<RInt(0), x1, RInt(0), y1>>,
      frame_ratio |-> fr, frame_scale |-> fs, double_line |-> dl] :
        x1 \in Lengths, y1 \in Lengths, fr \in Ratios \cup {Null},
        fs \in Ratios, dl \in BOOLEAN}
    \cup
    UNION {{[fn |-> "create_marker_from_region",
             lbl |-> ndimage_label(bin).lbl, i |-> r] :
                r \in 1..ndimage_label(bin).count} :
           bin \in [Pixels -> {0, 1}]}

InitFrame ==
    /\ workflow = "none"
    /\ pc = "call"
    /\ args = NoArgs
    /\ image = [ok |-> FALSE, px |-> WhiteImage]
    /\ input_file = NoFile
    /\ output_file = NoFile
    /\ orig = [input |-> input_file, output |-> output_file]
    /\ lbl = [p \in Pixels |-> 0]
    /\ lbl_count = 0
    /\ i = 0
    /\ markers = <<>>
    /\ gen = NoGen
    /\ angles = <<>>
    /\ gui = NoGui
    /\ mean_radius = Null
    /\ canvas = NoCanvas
    /\ error = "none"
    /\ call \in Calls
    /\ ret = <<>>

Return(v) ==
    /\ ret' = <<v>>
    /\ pc' = "returned"
    /\ UNCHANGED <<workflow, args, image, input_file, output_file, orig, lbl,
                   lbl_count, i, markers, gen, angles, gui, mean_radius,
                   canvas, error, call>>

Call_get_scale_from_ratio ==
    /\ pc = "call" /\ call.fn = "get_scale_from_ratio"
    /\ Return(get_scale_from_ratio(call.ratio, call.width, call.height))

Call_apply_scale_centered ==
    /\ pc = "call" /\ call.fn = "apply_scale_centered"
    /\ Return(apply_scale_centered(call.scale, call.a, call.b))

Call_draw_frame ==
    /\ pc = "call" /\ call.fn = "draw_frame"
    /\ Return(draw_frame(call.bbox, call.frame_ratio, call.frame_scale,
                         call.double_line))

Call_create_marker_from_region ==
    /\ pc = "call" /\ call.fn = "create_marker_from_region"
    /\ Return(create_marker_from_region(call.lbl, call.i))

NextFrame ==
    \/ Call_get_scale_from_ratio
    \/ Call_apply_scale_centered
    \/ Call_draw_frame
    \/ Call_create_marker_from_region

SpecFrame == InitFrame /\ [][NextFrame]_vars

(***************************************************************************)
(* Properties.                                                             *)
(***************************************************************************)
Offsets == ((-MaxOffset)..MaxOffset) \X ((-MaxOffset)..MaxOffset)

\* The connected regions of the binarized foreground of the input image.
Regions ==
    LET fg == {p \in Pixels : Binarize(image.px)[p] = 1}
    IN  {Grow({p}, fg) : p \in fg}

\* C1: when extract_markers has run to its end on an image whose foreground
\* has k regions, it has yielded exactly k markers, the r-th being the fit
\* of region r.
C1_OneMarkerPerRegion ==
    (workflow = "extract_markers" /\ pc \in {"write", "done"}) =>
        /\ Len(markers) = Cardinality(Regions)
        /\ \A r \in 1..Len(markers) :
              markers[r] = create_marker_from_region(lbl, r)

\* C2: once find_angles has been run on fewer than 2 markers, the workflow
\* has failed and no angle has been yielded.
C2_FewerThanTwoMarkersFail ==
    (workflow = "find_orientations" /\ gen.started /\ Len(markers) < 2) =>
        (pc = "failed" /\ angles = <<>>)

\* create_image has been entered with the markers of the input file.
CI_Entered ==
    /\ workflow = "create_image"
    /\ pc \in {"draw", "frame", "save", "done", "failed"}
    /\ error \notin {"RuntimeError", "IOError"}

\* C3: create_image on an empty marker set never gets as far as draw_frame:
\* it fails with the error for an empty marker set, no frame is drawn and no
\* canvas is returned.
C3_EmptyMarkerSetRejected ==
    (CI_Entered /\ markers = <<>>) =>
        /\ pc \notin {"frame", "save", "done"}
        /\ canvas.frame = <<>>
        /\ pc = "failed" => error = "EmptyMarkerSetError"

\* The markers of the input file, as stored.
InputMarkers == DTODecoder(orig.input.data)

\* Squared distance of stored markers a and b after scaling by
\* (1/weight_x, 1/weight_y), times (weight_x * weight_y)^2.
D(a, b) ==
    LET dx == InputMarkers[a].position[1] - InputMarkers[b].position[1]
        dy == InputMarkers[a].position[2] - InputMarkers[b].position[2]
    IN  dx * dx * args.weight_y * args.weight_y
            + dy * dy * args.weight_x * args.weight_x

\* The lowest index other than k that is nearest to marker k.
Nearest(k) ==
    CHOOSE n \in 1..Len(InputMarkers) :
        /\ n # k
        /\ \A m \in 1..Len(InputMarkers) : m # k => D(k, n) <= D(k, m)
        /\ \A m \in 1..(n - 1) : m # k => D(k, n) < D(k, m)

FO_Finished ==
    /\ workflow = "find_orientations"
    /\ pc = "done"
    /\ Len(markers) >= 2

\* C4: for n >= 2 markers find_angles yields n angles in input order, the
\* k-th being the direction from marker k to the lowest-indexed other
\* marker nearest to it under the weighted distance, taken in unweighted
\* coordinates; the neighbour is never the marker itself.
C4_AngleToNearestNeighbour ==
    FO_Finished =>
        /\ Len(angles) = Len(InputMarkers)
        /\ \A k \in 1..Len(InputMarkers) :
              /\ gen.nearest_neighbors[k] = Nearest(k)
              /\ gen.nearest_neighbors[k] # k
              /\ angles[k] =
                    Atan2(InputMarkers[Nearest(k)].position[2]
                              - InputMarkers[k].position[2],
                          InputMarkers[Nearest(k)].position[1]
                              - InputMarkers[k].position[1])
              /\ markers[k].orientation = angles[k]

\* C4 witness: three markers, the first and the third at one position, the
\* second elsewhere, under unequal weights.
C4_Witness ==
    /\ workflow = "find_orientations" /\ pc = "done"
    /\ Len(markers) = 3
    /\ markers[1].position = markers[3].position
    /\ markers[2].position # markers[1].position
    /\ args.weight_x = 2 /\ args.weight_y = 1
    /\ gen.nearest_neighbors = <<3, 1, 1>>

\* C5: for ratio r > 0, width w > 0 and height h > 0 the scales returned
\* satisfy (w*sx)/(h*sy) = r, sx >= 1, sy >= 1 and min(sx, sy) = 1.
C5_ScaleFromRatio ==
    (pc = "returned" /\ call.fn = "get_scale_from_ratio"
        /\ RLess(RZero, call.width) /\ RLess(RZero, call.height)) =>
        LET sx == ret[1].sx
            sy == ret[1].sy
        IN  /\ ret[1].error = "none"
            /\ RDiv(RMul(call.width, sx), RMul(call.height, sy)) = call.ratio
            /\ RLeq(ROne, sx)
            /\ RLeq(ROne, sy)
            /\ (sx = ROne \/ sy = ROne)

\* C5 witness: a call that has to stretch the height.
C5_Witness ==
    /\ pc = "returned" /\ call.fn = "get_scale_from_ratio"
    /\ call.ratio = <<1, 2>> /\ call.width = <<2, 1>> /\ call.height = <<1, 2>>
    /\ ret[1].sx = ROne /\ ret[1].sy = <<8, 1>>

\* C6: apply_scale_centered(s, a, b) returns (x, y) with y - x = s*(b - a)
\* and x + y = a + b, and (a, b) itself for s = 1.
C6_ScaleCentered ==
    (pc = "returned" /\ call.fn = "apply_scale_centered") =>
        LET x == ret[1][1]
            y == ret[1][2]
        IN  /\ RSub(y, x) = RMul(call.scale, RSub(call.b, call.a))
            /\ RAdd(x, y) = RAdd(call.a, call.b)
            /\ call.scale = ROne => (x = call.a /\ y = call.b)

\* C6 witness: a call with a scale other than 1 on an interval of positive
\* length.
C6_Witness ==
    /\ pc = "returned" /\ call.fn = "apply_scale_centered"
    /\ call.scale = <<2, 1>> /\ call.a = <<-1, 1>> /\ call.b = <<1, 2>>
    /\ ret[1] = << <<-7, 4>>, <<5, 4>> >>

\* C7: whatever find_orientations.main or refine_orientation.main leaves in
\* the marker file has the markers of the file read, in the same order, each
\* with the same position and radius.
C7_OnlyOrientationRewritten ==
    (workflow \in {"find_orientations", "refine_orientation"}) =>
        /\ input_file.exists = orig.input.exists
        /\ Len(input_file.data) = Len(orig.input.data)
        /\ \A k \in 1..Len(input_file.data) :
              /\ input_file.data[k].py_data.position
                    = orig.input.data[k].py_data.position
              /\ input_file.data[k].py_data.radius
                    = orig.input.data[k].py_data.radius

\* C7 witness: the refinement has written a file that differs from the one
\* read, whose two markers are at different positions.
C7_Witness ==
    /\ workflow = "refine_orientation" /\ pc = "done"
    /\ input_file # orig.input
    /\ Len(markers) = 2
    /\ markers[1].position[1] # markers[1].position[2]
    /\ markers[1].radius # markers[2].radius

\* C8: a file is changed only by the last step of a workflow whose
\* computation succeeded: while a workflow runs, and after it failed, the
\* files are as they were when it started.
C8_WriteOnlyAfterSuccess ==
    (input_file # orig.input \/ output_file # orig.output) =>
        (pc = "done" /\ error = "none")

\* C8 witness: find_orientations.main failed inside find_angles.
C8_Witness ==
    /\ workflow = "find_orientations" /\ pc = "failed"
    /\ gen.started /\ error = "AttributeError"
    /\ Len(markers) = 2
    /\ input_file = orig.input

Translate(ms, off) ==
    [k \in 1..Len(ms) |->
        [ms[k] EXCEPT !.position = Point(ms[k].position[1] + off[1],
                                         ms[k].position[2] + off[2])]]

\* C9: for n >= 2 markers, the neighbours selected and the angles yielded
\* are those find_angles gives for the same markers moved by any one offset.
C9_TranslationInvariant ==
    FO_Finished =>
        \A off \in Offsets :
            LET st == find_angles_start(Translate(InputMarkers, off),
                                        args.weight_x, args.weight_y)
            IN  /\ st.error = "none"
                /\ st.nearest_neighbors = gen.nearest_neighbors
                /\ \A k \in 1..Len(InputMarkers) :
                      find_angles_yield(st, k) = angles[k]

\* C9 witness: a run over three markers at three positions.
C9_Witness ==
    /\ workflow = "find_orientations" /\ pc = "done"
    /\ Len(markers) = 3
    /\ markers[1].position # markers[2].position
    /\ markers[2].position # markers[3].position
    /\ markers[1].position # markers[3].position
    /\ angles = << <<1, 0>>, <<-1, 0>>, <<0, -1>> >>

\* C10: every square drawn has the mean of all radii as its radius when
\* use_mean_radius is set and the radius of its marker otherwise, and the
\* markers in memory stay the markers read.
C10_MeanRadiusOnlyForDrawing ==
    (CI_Entered /\ pc # "failed") =>
        /\ markers = InputMarkers
        /\ input_file = orig.input
        /\ \A k \in 1..Len(canvas.items) :
              LET r == canvas.items[k].radius
                  n == Len(InputMarkers)
                  total == SumSeq([j \in 1..n |-> InputMarkers[j].radius])
              IN  IF args.use_mean_radius
                  THEN r[1] * n = total * r[2] /\ r[2] > 0
                  ELSE r = <<InputMarkers[k].radius, 1>>

\* C10 witness: two markers of different radius drawn with the mean radius.
C10_Witness ==
    /\ workflow = "create_image" /\ pc = "done"
    /\ args.use_mean_radius
    /\ Len(markers) = 2
    /\ markers[1].radius = 0 /\ markers[2].radius = 1
    /\ canvas.items[1].radius = <<1, 2>> /\ canvas.items[2].radius = <<1, 2>>

\* The offset of a corner from the centroid c, times sqrt(n).
CornerOffset(corner) == <<corner[1].b, corner[2].b>>

\* The corner lies at c plus a multiple of 1/sqrt(n).
CornerAround(corner, c, n) ==
    /\ corner[1].a = RInt(c[1]) /\ corner[2].a = RInt(c[2])
    /\ corner[1].n = n /\ corner[2].n = n

\* Rotation by +90 degrees and reflection through the origin.
Rot90(u) == <<RSub(RZero, u[2]), u[1]>>
Opposite(u) == <<RSub(RZero, u[1]), RSub(RZero, u[2])>>

\* C11: the square drawn for a marker with centroid c, radius r and
\* orientation o has the corners c+v, c+R(v), c-v, c-R(v) in this order,
\* where v has length r and the angle o + pi/4 and R rotates by +90 degrees;
\* so every corner is at distance r from c.
C11_SquareCorners ==
    (CI_Entered /\ pc # "failed") =>
        \A k \in 1..Len(canvas.items) :
            LET c == InputMarkers[k].position
                o == InputMarkers[k].orientation
                r == canvas.items[k].radius
                path == canvas.items[k].path
                n == path[1][1].n
                v == CornerOffset(path[1])
                \* o turned by 45 degrees, up to a positive factor
                t == <<o[1] - o[2], o[1] + o[2]>>
                sq(u) == RAdd(RMul(u[1], u[1]), RMul(u[2], u[2]))
            IN  /\ Len(path) = 4
                /\ \A j \in 1..4 : CornerAround(path[j], c, n)
                /\ sq(v) = RMul(RMul(r, r), RInt(n))
                /\ RMul(v[1], RInt(t[2])) = RMul(v[2], RInt(t[1]))
                /\ RLeq(RZero, RAdd(RMul(v[1], RInt(t[1])),
                                    RMul(v[2], RInt(t[2]))))
                /\ CornerOffset(path[2]) = Rot90(v)
                /\ CornerOffset(path[3]) = Opposite(v)
                /\ CornerOffset(path[4]) = Opposite(Rot90(v))
                /\ \A j \in 1..4 :
                      sq(CornerOffset(path[j])) = RMul(RMul(r, r), RInt(n))

\* C11 witness: the marker at (1, 0) with orientation 0 drawn with radius 1:
\* first corner (1 + 1/sqrt(2), 1/sqrt(2)), second (1 - 1/sqrt(2), 1/sqrt(2)).
C11_Witness ==
    /\ workflow = "create_image" /\ pc = "done"
    /\ Len(canvas.items) >= 1
    /\ markers[1].orientation = <<1, 0>>
    /\ canvas.items[1].radius = ROne
    /\ canvas.items[1].path[1]
          = <<[a |-> <<1, 1>>, b |-> <<1, 1>>, n |-> 2],
              [a |-> <<0, 1>>, b |-> <<1, 1>>, n |-> 2]>>
    /\ canvas.items[1].path[2]
          = <<[a |-> <<1, 1>>, b |-> <<-1, 1>>, n |-> 2],
              [a |-> <<0, 1>>, b |-> <<1, 1>>, n |-> 2]>>

\* The marker file a finished workflow has written from the markers it
\* holds: extract_markers writes its output file, the other two workflows
\* write back the file they read.
WrittenMarkerFile ==
    IF workflow = "extract_markers" THEN output_file ELSE input_file

\* C12: what DTODecoder reads from a file DTOEncoder wrote is the marker list
\* that was written, with the same count, order, positions, radii and
\* orientations (set or null), and encoding it again gives the same file
\* content; the same holds of every marker file a workflow is given.
C12_RoundTrip ==
    /\ (/\ workflow \in {"extract_markers", "find_orientations",
                         "refine_orientation"}
        /\ pc = "done"
        /\ WrittenMarkerFile.kind = "json") =>
           LET data == WrittenMarkerFile.data
               ms == DTODecoder(data)
           IN  /\ Len(ms) = Len(markers)
               /\ \A k \in 1..Len(ms) :
                     /\ ms[k].position = markers[k].position
                     /\ ms[k].radius = markers[k].radius
                     /\ ms[k].orientation = markers[k].orientation
               /\ DTOEncoder(ms) = data
    /\ orig.input.kind = "json" =>
           /\ Len(DTODecoder(orig.input.data)) = Len(orig.input.data)
           /\ DTOEncoder(DTODecoder(orig.input.data)) = orig.input.data

\* C12 witness: find_orientations has written three markers with their new
\* orientations, and reading the file gives them back.
C12_Witness ==
    /\ workflow = "find_orientations" /\ pc = "done"
    /\ input_file # orig.input
    /\ Len(markers) = 3
    /\ \A k \in 1..3 : markers[k].orientation # Null
    /\ markers[1].orientation # markers[2].orientation
    /\ DTODecoder(input_file.data) = markers

\* The label grid l with pixel q relabelled as v.
Relabel(l, q, v) == [p \in Pixels |-> IF p = q THEN v ELSE l[p]]

\* C13: the marker create_marker_from_region returns for region i of a label
\* grid has as position the mean of the pixels labelled i and as radius the
\* largest distance from that position to a pixel labelled i; the radius is
\* not negative, it is 0 for a region of one pixel, and the marker stays the
\* same when pixels outside the region are relabelled.
C13_RegionFit ==
    (pc = "returned" /\ call.fn = "create_marker_from_region") =>
        LET pts == {p \in Pixels : call.lbl[p] = call.i}
            n == Cardinality(pts)
            m == ret[1]
            c == m.position
            r2 == m.radius.sqrt_of
            d2(p) == LET dx == RSub(RInt(p[1]), c[1])
                         dy == RSub(RInt(p[2]), c[2])
                     IN  RAdd(RMul(dx, dx), RMul(dy, dy))
        IN  /\ n >= 1
            /\ RMul(c[1], RInt(n)) = RInt(SumCoord(pts, 1))
            /\ RMul(c[2], RInt(n)) = RInt(SumCoord(pts, 2))
            /\ \E p \in pts : d2(p) = r2
            /\ \A p \in pts : RLeq(d2(p), r2)
            /\ RLeq(RZero, r2)
            /\ (n = 1) => (r2 = RZero)
            /\ m = create_marker_from_region(
                       [p \in Pixels |-> IF p \in pts THEN call.i ELSE 0],
                       call.i)
            /\ \A q \in Pixels \ pts :
                  \A v \in {0, call.i + 1} :
                      m = create_marker_from_region(Relabel(call.lbl, q, v),
                                                    call.i)

\* C13 witness: the region (0,0), (0,1), (1,0): centroid (1/3, 1/3), and the
\* square of the radius is 5/9.
C13_Witness ==
    /\ pc = "returned" /\ call.fn = "create_marker_from_region"
    /\ {p \in Pixels : call.lbl[p] = call.i} = {<<0, 0>>, <<0, 1>>, <<1, 0>>}
    /\ ret[1].position = << <<1, 3>>, <<1, 3>> >>
    /\ ret[1].radius = [sqrt_of |-> <<5, 9>>]

\* C14: while the refinement window is shown, whatever picks, clicks and
\* mouse moves have been delivered: at most one marker is selected; a pick
\* while a marker is selected changes nothing; a click is being ignored only
\* between the pick that selected a marker and the first click after it, that
\* click leaves the marker selected and the click after it clears the
\* selection; and a mouse move changes nothing but the angle of the selected
\* marker, and nothing at all while no marker is selected.
C14_GuiSelection ==
    (workflow = "refine_orientation" /\ pc = "show") =>
        LET sel == gui.selected_index
            others_kept ==
                /\ Len(angles') = Len(angles)
                /\ \A j \in 1..Len(angles) : j # sel => angles'[j] = angles[j]
        IN  /\ sel \in 0..Len(markers)
            /\ gui.ignore_next_click => sel # 0
            /\ \A k \in 1..Len(markers) :
                  /\ ENABLED on_pick(k)
                  /\ sel # 0 => ~ENABLED (on_pick(k) /\ vars' # vars)
                  /\ sel = 0 =>
                        ~ENABLED (on_pick(k)
                                    /\ ~(/\ gui'.selected_index = k
                                         /\ gui'.ignore_next_click
                                         /\ angles' = angles))
            /\ ENABLED on_click
            /\ (sel # 0 /\ gui.ignore_next_click) =>
                  ~ENABLED (on_click
                              /\ ~(/\ gui'.selected_index = sel
                                   /\ ~gui'.ignore_next_click
                                   /\ angles' = angles))
            /\ (sel # 0 /\ ~gui.ignore_next_click) =>
                  ~ENABLED (on_click
                              /\ ~(/\ gui'.selected_index = 0
                                   /\ angles' = angles))
            /\ sel = 0 => ~ENABLED (on_click /\ vars' # vars)
            /\ \A xy \in MousePoints :
                  /\ ENABLED on_mouse_move(xy)
                  /\ ~ENABLED (on_mouse_move(xy)
                                 /\ ~(/\ gui' = gui
                                      /\ markers' = markers
                                      /\ others_kept))
                  /\ sel = 0 => ~ENABLED (on_mouse_move(xy) /\ vars' # vars)

\* C14 witness: marker 2 of two is selected, the click that came with the
\* pick has been delivered, and a mouse move has turned marker 2 only.
C14_Witness ==
    /\ workflow = "refine_orientation" /\ pc = "show"
    /\ Len(markers) = 2
    /\ gui.selected_index = 2 /\ ~gui.ignore_next_click
    /\ angles[2] # markers[2].orientation
    /\ angles[1] = markers[1].orientation

====
